---- MODULE Spec2Model ----
(***************************************************************************)
(* yadisk_api: the request executor (requester.py, Requester.wrap) and the *)
(* operation facade (client.py, YandexDisk) as one sequential client.      *)
(* Every transport dispatch is one step: the facade builds the request,    *)
(* the executor prefixes the url and attaches the header, the transport    *)
(* answers with any status code and any body, the executor classifies.     *)
(* Text is kept as TLA+ strings where the code only concatenates it and as *)
(* tuples of one-character strings where the code looks inside it          *)
(* (quoting, the regular expression of _iter_directory_content).           *)
(***************************************************************************)
EXTENDS Integers, Sequences, FiniteSets, TLC

VARIABLES
    token,      \* Requester._token
    pc,         \* position of the client inside the running facade call
    op,         \* the running call: method name and its arguments
    log,        \* the requests handed to the transport during the call
    ncalls,     \* executor calls (Requester.get/post/put/patch/delete) made
    response,   \* the response the running method holds and can still read
    status,     \* the status code of the latest answer of the transport
    execRead,   \* whether the executor parsed the body of that answer
    result,     \* what the call returned or raised
    waited,     \* what _waiting_for_finish returned
    href,       \* the href read from a body: check_status_url, the upload url
    sleepv,     \* the local `sleep` of the poll loop
    sleeps,     \* the durations given to time.sleep during the call
    polled,     \* for each poll made: was it status 200 with status "success"
    file,       \* the file object of upload_file: its content and position
    meta,       \* how the metadata lookup of _is_same_file ended
    fs,         \* the local tree upload_directory walks
    stack,      \* the pending glob lists of _iter_directory_content
    visited     \* the nodes upload_directory acted on, in order

vars == <<token, pc, op, log, ncalls, response, status, execRead, result, waited,
          href, sleepv, sleeps, polled, file, meta, fs, stack, visited>>

----------------------------------------------------------------------------
(* Bounds of the model *)

\* polls of one _waiting_for_finish loop that are followed
MaxPolls == 2
\* bytes of a local file
MaxFileLen == 1
\* nodes of the local tree below its root
MaxNodes == 2

----------------------------------------------------------------------------
(* requester.py: status codes and the error table *)

STATUS_OK == 200
STATUS_CREATED == 201
STATUS_ACCEPTED == 202
STATUS_NO_CONTENT == 204

\* the success set without 204
OK_STATUSES_without_204 == {STATUS_OK, STATUS_CREATED, STATUS_ACCEPTED}

OK_STATUSES == {STATUS_OK, STATUS_CREATED, STATUS_ACCEPTED, STATUS_NO_CONTENT}

ErrorCodes == {401, 403, 409, 404, 412, 413, 500, 503, 507}

\* the table with the entries of 404 and 409 exchanged
CODE_TO_ERROR_swapped(code) ==
    CASE code = 404 -> "DiskPathError"
      [] code = 409 -> "NotFoundError"
      [] code = 401 -> "UnauthorizedError"
      [] code = 403 -> "ForbiddenError"
      [] code = 412 -> "PreconditionFailed"
      [] code = 413 -> "PayloadTooLarge"
      [] code = 500 -> "InternalServerError"
      [] code = 503 -> "ServiceUnavailable"
      [] code = 507 -> "InsufficientStorageError"

CODE_TO_ERROR(code) ==
    CASE code = 401 -> "UnauthorizedError"
      [] code = 403 -> "ForbiddenError"
      [] code = 409 -> "DiskPathError"
      [] code = 404 -> "NotFoundError"
      [] code = 412 -> "PreconditionFailed"
      [] code = 413 -> "PayloadTooLarge"
      [] code = 500 -> "InternalServerError"
      [] code = 503 -> "ServiceUnavailable"
      [] code = 507 -> "InsufficientStorageError"

DiskUrl == "https://cloud-api.yandex.net/v1/"

\* YandexDisk._SLEEP
SLEEP == 3

----------------------------------------------------------------------------
(* Python values as the facade passes them around *)

PyNone == [ty |-> "none", b |-> FALSE, n |-> 0, s |-> <<>>, l |-> <<>>]
PyBool(x) == [ty |-> "bool", b |-> x, n |-> 0, s |-> <<>>, l |-> <<>>]
PyInt(x) == [ty |-> "int", b |-> FALSE, n |-> x, s |-> <<>>, l |-> <<>>]
PyStr(x) == [ty |-> "str", b |-> FALSE, n |-> 0, s |-> x, l |-> <<>>]
PyList(x) == [ty |-> "list", b |-> FALSE, n |-> 0, s |-> <<>>, l |-> x]

\* bool(v): what `if v` and `v or w` look at
Truthy(v) ==
    CASE v.ty = "none" -> FALSE
      [] v.ty = "bool" -> v.b
      [] v.ty = "int" -> v.n # 0
      [] v.ty = "str" -> v.s # <<>>
      [] v.ty = "list" -> v.l # <<>>

Digit(d) == <<"0", "1", "2", "3", "4", "5", "6", "7", "8", "9">>[d + 1]

RECURSIVE Decimal(_)
Decimal(n) == IF n < 10 THEN <<Digit(n)>>
              ELSE Decimal(n \div 10) \o <<Digit(n % 10)>>

RECURSIVE ReprItems(_)
ReprItems(l) ==
    IF l = <<>> THEN <<>>
    ELSE <<"'">> \o Head(l) \o <<"'">>
         \o (IF Tail(l) = <<>> THEN <<>> ELSE <<",", " ">> \o ReprItems(Tail(l)))

\* str(v), as characters
PyStrOf(v) ==
    CASE v.ty = "none" -> <<"N", "o", "n", "e">>
      [] v.ty = "bool" -> IF v.b THEN <<"T", "r", "u", "e">>
                                 ELSE <<"F", "a", "l", "s", "e">>
      [] v.ty = "int" -> Decimal(v.n)
      [] v.ty = "str" -> v.s
      [] v.ty = "list" -> <<"[">> \o ReprItems(v.l) \o <<"]">>

\* urllib.parse.quote_plus on one character
QuoteChar(c) ==
    CASE c = "/" -> "%2F"
      [] c = " " -> "+"
      [] c = "[" -> "%5B"
      [] c = "]" -> "%5D"
      [] c = "'" -> "%27"
      [] c = "," -> "%2C"
      [] c = ":" -> "%3A"
      [] c = "*" -> "%2A"
      [] OTHER -> c

RECURSIVE quote_plus(_)
quote_plus(s) == IF s = <<>> THEN "" ELSE QuoteChar(Head(s)) \o quote_plus(Tail(s))

\* characters as one string, unquoted
RECURSIVE Text(_)
Text(s) == IF s = <<>> THEN "" ELSE Head(s) \o Text(Tail(s))

\* urllib.parse.urlencode(query, doseq=False): every item of the dict gives
\* one key=value pair, the value being quote_plus(str(v)) whatever v is
RECURSIVE urlencode_pairs(_)
urlencode_pairs(d) ==
    IF d = <<>> THEN <<>>
    ELSE <<<<Head(d)[1], quote_plus(PyStrOf(Head(d)[2]))>>>> \o urlencode_pairs(Tail(d))

RECURSIVE JoinPairs(_)
JoinPairs(q) ==
    IF q = <<>> THEN ""
    ELSE Head(q)[1] \o "=" \o Head(q)[2]
         \o (IF Tail(q) = <<>> THEN "" ELSE "&" \o JoinPairs(Tail(q)))

urlencode(d) == JoinPairs(urlencode_pairs(d))

\* the transport's encoding of a `params` dict: a None value is left
\* out, a list gives one pair per element, anything else is str(v) quoted
RECURSIVE ListPairs(_, _)
ListPairs(k, l) ==
    IF l = <<>> THEN <<>> ELSE <<<<k, quote_plus(Head(l))>>>> \o ListPairs(k, Tail(l))

RECURSIVE TransportParams(_)
TransportParams(d) ==
    IF d = <<>> THEN <<>>
    ELSE (CASE Head(d)[2].ty = "none" -> <<>>
            [] Head(d)[2].ty = "list" -> ListPairs(Head(d)[1], Head(d)[2].l)
            [] OTHER -> <<<<Head(d)[1], quote_plus(PyStrOf(Head(d)[2]))>>>>)
         \o TransportParams(Tail(d))

----------------------------------------------------------------------------
(* Responses of the transport *)

BodyKeys == {"message", "href", "status", "md5"}

\* the text upload_directory looks for in a DiskPathError
FOLDER_EXISTS == "a folder with this name already exists"

Messages == {<<"error">>, <<"path", FOLDER_EXISTS>>}

Hrefs == {"https://op.example/1", "https://op.example/2"}

Bytes == {0, 1}

RECURSIVE SeqsUpTo(_, _)
SeqsUpTo(S, n) ==
    IF n = 0 THEN {<<>>}
    ELSE LET shorter == SeqsUpTo(S, n - 1)
         IN shorter \cup {Append(s, x) : s \in shorter, x \in S}

FileContents == SeqsUpTo(Bytes, MaxFileLen)

HexDigit(d) == <<"0", "1", "2", "3", "4", "5", "6", "7",
                 "8", "9", "a", "b", "c", "d", "e", "f">>[d + 1]

\* hashlib.md5(data).hexdigest(), at a width of four bits: a digest of the
\* whole of `data`, in order, which two contents may share
RECURSIVE Digest(_, _)
Digest(h, data) ==
    IF data = <<>> THEN h ELSE Digest((h * 5 + Head(data) + 1) % 16, Tail(data))

md5_hexdigest(data) == HexDigit(Digest(7, data))

Md5s == {md5_hexdigest(c) : c \in FileContents}

NotJson == [json |-> FALSE, has |-> {}, message |-> <<>>, href |-> "",
            status |-> "", md5 |-> ""]

Json(has, m, h, s, d) == [json |-> TRUE, has |-> has, message |-> m, href |-> h,
                          status |-> s, md5 |-> d]

Bodies ==
    {NotJson, Json({}, <<>>, "", "", "")}
    \cup {Json({"message"}, m, "", "", "") : m \in Messages}
    \cup {Json({"href"}, <<>>, h, "", "") : h \in Hrefs}
    \cup {Json({"status"}, <<>>, "", s, "") : s \in {"success", "failed"}}
    \cup {Json({"md5"}, <<>>, "", "", d) : d \in Md5s}

\* the status codes the transport answers with: 400 and 502 stand for the
\* codes outside the table and the success set
StatusCodes == {200, 201, 202, 204, 400, 401, 403, 404, 409, 412, 413, 500, 502,
                503, 507}

NoResponse == [id |-> 0, status_code |-> 0, body |-> NotJson]

Responses(id) == {[id |-> id, status_code |-> c, body |-> b] :
                    c \in StatusCodes, b \in Bodies}

WalkStatusCodes == {200, 201, 404, 409, 500}

WalkBodies ==
    {b \in Bodies : b.href # "https://op.example/2"}

WalkResponses(id) == {[id |-> id, status_code |-> c, body |-> b] :
                        c \in WalkStatusCodes, b \in WalkBodies}

NoError == [kind |-> "", message |-> <<>>]

\* response.json(): the parsed body, or ValueError when the body is no JSON
JsonFails(r) == ~r.body.json

\* response.json()[key]: ValueError, then KeyError, then the value
GetError(r, key) ==
    IF ~r.body.json THEN [kind |-> "ValueError", message |-> <<>>]
    ELSE IF key \notin r.body.has THEN [kind |-> "KeyError", message |-> <<key>>]
    ELSE NoError

----------------------------------------------------------------------------
(* requester.py: Requester.wrap *)

\* a request as a facade method hands it to Requester.get/post/...:
\* url is the text given, qs the key=value pairs that text holds after "?"
Req(verb, url, qs) ==
    [verb |-> verb, url |-> url, qs |-> qs, params |-> <<>>,
     absolute_url |-> FALSE, without_auth |-> FALSE, files |-> FALSE, data |-> FALSE]

\* the header left off the calls of absolute urls
Authorization_relative_only(d) ==
    IF d.without_auth # TRUE /\ ~d.absolute_url
    THEN {<<"Authorization", "OAuth " \o token>>} ELSE {}

Authorization(d) ==
    IF d.without_auth # TRUE THEN {<<"Authorization", "OAuth " \o token>>} ELSE {}

WrapUrl(d) == IF ~d.absolute_url THEN DiskUrl \o d.url ELSE d.url

\* what the transport reads from the file object it is given: from the
\* current position to the end
FileRead(f) == SubSeq(f.content, f.pos + 1, Len(f.content))

AfterRead(f) == [f EXCEPT !.pos = Len(f.content)]

\* wrapped(): the call of `method`, as the request that leaves the client
wrapped(d) ==
    [verb |-> d.verb,
     url |-> WrapUrl(d),
     query |-> d.qs \o TransportParams(d.params),
     headers |-> Authorization(d),
     files |-> d.files,
     sent |-> IF d.files THEN FileRead(file) ELSE <<>>]

\* wrapped(): after the call of `method`
Classify(r) ==
    IF r.status_code \in OK_STATUSES
    THEN [k |-> "return", err |-> NoError, read |-> FALSE]
    ELSE IF GetError(r, "message") # NoError
    THEN [k |-> "raise", err |-> GetError(r, "message"), read |-> TRUE]
    ELSE IF r.status_code \notin ErrorCodes
    THEN [k |-> "raise", read |-> TRUE,
          err |-> [kind |-> "RequestError", message |-> r.body.message]]
    ELSE [k |-> "raise", read |-> TRUE,
          err |-> [kind |-> CODE_TO_ERROR(r.status_code), message |-> r.body.message]]

----------------------------------------------------------------------------
(* The calls a user of the client can make *)

PathArgs == {<<"/", "a">>}

Opt(v) == {PyNone, v}

md5_fields == PyList(<<<<"m", "d", "5">>>>)

\* a call with every argument at its default
Defaults(name) ==
    [name |-> name, verb |-> "", url |-> "", absolute_url |-> FALSE,
     without_auth |-> FALSE, path |-> <<"/">>, from_path |-> <<>>,
     sort |-> PyNone, limit |-> PyNone, offset |-> PyNone, fields |-> PyNone,
     preview_size |-> PyNone, preview_crop |-> PyNone, media_type |-> PyNone,
     trash |-> FALSE, overwrite |-> FALSE, skip_exists |-> TRUE,
     permanently |-> FALSE, disable_redirects |-> FALSE, rename |-> PyNone,
     wait_for_finish |-> TRUE, sleep |-> PyNone, stream |-> FALSE,
     content |-> <<>>, local_path |-> <<>>, source |-> <<>>, given |-> NoResponse]

Sleeps == {PyNone, PyInt(0), PyInt(1)}

RequesterCalls ==
    {[Defaults("request") EXCEPT !.verb = v, !.url = "disk/", !.absolute_url = a,
                                 !.without_auth = w] :
        v \in {"GET", "POST", "PUT", "PATCH", "DELETE"}, a \in BOOLEAN, w \in BOOLEAN}

ReadCalls ==
    {Defaults("get_disk_info")}
    \cup {[Defaults("get_meta_info") EXCEPT !.path = p, !.sort = so, !.limit = li,
              !.offset = off, !.fields = fi, !.preview_size = ps, !.trash = tr] :
            p \in PathArgs, so \in Opt(PyStr(<<"n">>)), li \in Opt(PyInt(1)),
            off \in Opt(PyInt(0)), fi \in Opt(md5_fields),
            ps \in Opt(PyStr(<<"S">>)), tr \in BOOLEAN}
    \cup {[Defaults("get_files_list") EXCEPT !.limit = li, !.offset = off,
              !.media_type = mt, !.fields = fi] :
            li \in Opt(PyInt(1)), off \in Opt(PyInt(0)),
            mt \in Opt(PyStr(<<"i">>)), fi \in Opt(md5_fields)}
    \cup {[Defaults("get_last_uploaded") EXCEPT !.limit = li, !.media_type = mt,
              !.preview_crop = pcr] :
            li \in Opt(PyInt(1)), mt \in Opt(PyStr(<<"i">>)), pcr \in Opt(PyBool(TRUE))}
    \cup {[Defaults("download_file") EXCEPT !.path = p, !.stream = st] :
            p \in PathArgs, st \in BOOLEAN}

WriteCalls ==
    {[Defaults("set_meta_to_resource") EXCEPT !.path = p, !.fields = fi] :
        p \in PathArgs, fi \in {PyNone, PyList(<<>>), md5_fields}}
    \cup {[Defaults("create_folder") EXCEPT !.path = p, !.fields = fi] :
            p \in PathArgs, fi \in Opt(md5_fields)}
    \cup {[Defaults(n) EXCEPT !.path = p] :
            n \in {"publish_resource", "unpublish_resource"}, p \in PathArgs}
    \cup {[Defaults("upload_file") EXCEPT !.path = p, !.overwrite = ow,
              !.skip_exists = sk, !.content = c] :
            p \in PathArgs, ow \in BOOLEAN, sk \in BOOLEAN, c \in FileContents}

AsyncCalls ==
    {[Defaults("upload_file_from_url") EXCEPT !.source = <<"h", ":", "/", "f">>, !.path = p,
          !.fields = fi, !.disable_redirects = dr, !.wait_for_finish = w, !.sleep = s] :
        p \in PathArgs, fi \in Opt(md5_fields), dr \in BOOLEAN, w \in BOOLEAN,
        s \in Sleeps}
    \cup {[Defaults("copy_resource") EXCEPT !.from_path = <<"/", "b">>, !.path = p,
              !.overwrite = ow, !.fields = fi, !.wait_for_finish = w, !.sleep = s] :
            p \in PathArgs, ow \in BOOLEAN, fi \in Opt(md5_fields), w \in BOOLEAN,
            s \in Sleeps}
    \cup {[Defaults("move_resource") EXCEPT !.from_path = <<"/", "b">>, !.path = p,
              !.overwrite = ow, !.wait_for_finish = w, !.sleep = s] :
            p \in PathArgs, ow \in BOOLEAN, w \in BOOLEAN, s \in Sleeps}
    \cup {[Defaults("delete_resource") EXCEPT !.path = p, !.permanently = pe,
              !.wait_for_finish = w, !.sleep = s] :
            p \in PathArgs, pe \in BOOLEAN, w \in BOOLEAN, s \in Sleeps}
    \cup {[Defaults("empty_trash") EXCEPT !.path = p, !.wait_for_finish = w,
              !.sleep = s] :
            p \in PathArgs \cup {<<>>}, w \in BOOLEAN, s \in Sleeps}
    \cup {[Defaults("restore_from_trash") EXCEPT !.path = p, !.rename = rn,
              !.overwrite = ow] :
            p \in PathArgs, rn \in Opt(PyStr(<<"n">>)), ow \in BOOLEAN}
    \cup {[Defaults("waiting_for_finish") EXCEPT !.given = r, !.wait_for_finish = w,
              !.sleep = s] :
            r \in Responses(0), w \in BOOLEAN, s \in Sleeps}

----------------------------------------------------------------------------
(* client.py: the request each facade method builds *)

get_disk_info_request == Req("GET", "disk/", <<>>)

get_meta_info_request(c) ==
    [Req("GET", "disk/" \o (IF c.trash THEN "trash/" ELSE "") \o "resources", <<>>)
       EXCEPT !.params = << <<"path", PyStr(c.path)>>, <<"sort", c.sort>>,
                            <<"limit", c.limit>>, <<"offset", c.offset>>,
                            <<"fields", c.fields>>,
                            <<"preview_size", c.preview_size>>,
                            <<"preview_crop", c.preview_crop>> >>]

get_files_list_request(c) ==
    [Req("GET", "disk/resources/files", <<>>)
       EXCEPT !.params = << <<"limit", c.limit>>, <<"offset", c.offset>>,
                            <<"fields", c.fields>>,
                            <<"preview_size", c.preview_size>>,
                            <<"preview_crop", c.preview_crop>>,
                            <<"media_type", c.media_type>> >>]

get_last_uploaded_request(c) ==
    [Req("GET", "disk/resources/files", <<>>)
       EXCEPT !.params = << <<"limit", c.limit>>, <<"fields", c.fields>>,
                            <<"preview_size", c.preview_size>>,
                            <<"preview_crop", c.preview_crop>>,
                            <<"media_type", c.media_type>> >>]

\* a url with its query string: `'...?{}'.format(urlencode(d))`
WithQuery(verb, url, d) ==
    Req(verb, url \o "?" \o urlencode(d), urlencode_pairs(d))

set_meta_to_resource_request(c) ==
    [WithQuery("PATCH", "disk/resources/",
               << <<"path", PyStr(c.path)>> >>
               \o (IF Truthy(c.fields) THEN << <<"fields", c.fields>> >> ELSE <<>>))
       EXCEPT !.data = TRUE]

upload_url_request(c) ==
    [Req("GET", "disk/resources/upload", <<>>)
       EXCEPT !.params = << <<"path", PyStr(c.path)>>,
                            <<"overwrite", PyBool(c.overwrite)>> >>]

upload_put_request(url) ==
    [Req("PUT", url, <<>>) EXCEPT !.files = TRUE, !.absolute_url = TRUE]

upload_file_from_url_request(c) ==
    WithQuery("POST", "disk/resources/upload",
              << <<"url", PyStr(c.source)>>, <<"path", PyStr(c.path)>>,
                 <<"fields", c.fields>>,
                 <<"disable_redirects", PyBool(c.disable_redirects)>> >>)

download_url_request(c) ==
    [Req("GET", "disk/resources/download", <<>>)
       EXCEPT !.params = << <<"path", PyStr(c.path)>> >>]

download_get_request(url) ==
    [Req("GET", url, <<>>) EXCEPT !.absolute_url = TRUE]

copy_resource_request(c) ==
    WithQuery("POST", "disk/resources/copy",
              << <<"from", PyStr(c.from_path)>>, <<"path", PyStr(c.path)>>,
                 <<"overwrite", PyBool(c.overwrite)>>, <<"fields", c.fields>> >>)

move_resource_request(c) ==
    WithQuery("POST", "disk/resources/move",
              << <<"from", PyStr(c.from_path)>>, <<"path", PyStr(c.path)>>,
                 <<"overwrite", PyBool(c.overwrite)>> >>)

delete_resource_request(c) ==
    WithQuery("DELETE", "disk/resources",
              << <<"path", PyStr(c.path)>>,
                 <<"permanently", PyBool(c.permanently)>> >>)

create_folder_request(path, fields) ==
    WithQuery("PUT", "disk/resources/",
              << <<"path", PyStr(path)>>, <<"fields", fields>> >>)

publish_resource_request(c) ==
    WithQuery("PUT", "disk/resources/publish", << <<"path", PyStr(c.path)>> >>)

unpublish_resource_request(c) ==
    WithQuery("PUT", "disk/resources/unpublish", << <<"path", PyStr(c.path)>> >>)

empty_trash_request(c) ==
    IF c.path # <<>>
    THEN WithQuery("DELETE", "disk/trash/resources/", << <<"path", PyStr(c.path)>> >>)
    ELSE Req("DELETE", "disk/trash/resources/", <<>>)

restore_from_trash_request(c) ==
    WithQuery("PUT", "disk/trash/resources/restore",
              << <<"path", PyStr(c.path)>>, <<"name", c.rename>>,
                 <<"overwrite", PyBool(c.overwrite)>> >>)

\* the poll without absolute_url=True
poll_request_relative(url) == Req("GET", url, <<>>)

poll_request(url) == [Req("GET", url, <<>>) EXCEPT !.absolute_url = TRUE]

requester_request(c) ==
    [Req(c.verb, c.url, <<>>) EXCEPT !.absolute_url = c.absolute_url,
                                     !.without_auth = c.without_auth]

----------------------------------------------------------------------------
(* The client as a state machine *)

Tokens == {"t1", "t2"}

NoFile == [content |-> <<>>, pos |-> 0, path |-> <<>>]

NoResult == [k |-> "none", how |-> "", resp |-> NoResponse, err |-> NoError]

NoMeta == [status_code |-> 0, err |-> "", md5 |-> ""]

ValueError == [kind |-> "ValueError", message |-> <<>>]

\* YandexDisk(token): the client and its Requester, before any call
Init ==
    /\ token \in Tokens
    /\ pc = "idle"
    /\ op = Defaults("")
    /\ log = <<>>
    /\ ncalls = 0
    /\ response = NoResponse
    /\ status = 0
    /\ execRead = FALSE
    /\ result = NoResult
    /\ waited = NoResponse
    /\ href = ""
    /\ sleepv = 0
    /\ sleeps = <<>>
    /\ polled = <<>>
    /\ file = NoFile
    /\ meta = NoMeta
    /\ fs = {}
    /\ stack = <<>>
    /\ visited = <<>>

\* an executor that sends the request once more after a non-success answer
Dispatched_again(d, r) ==
    IF r.status_code \in OK_STATUSES THEN <<wrapped(d)>> ELSE <<wrapped(d), wrapped(d)>>

\* the requests one executor call hands to the transport: `method` is
\* called once, whatever it answers
Dispatched(d, r) == <<wrapped(d)>>

\* one executor call: the request leaves, the transport answers r
Exchange(d, r) ==
    /\ log' = log \o Dispatched(d, r)
    /\ ncalls' = ncalls + 1
    /\ status' = r.status_code
    /\ execRead' = Classify(r).read

\* an executor call that leaves the file object alone unless it carries it
Dispatch(d, r) ==
    /\ Exchange(d, r)
    /\ file' = IF d.files THEN AfterRead(file) ELSE file

\* what the transport may answer; during upload_directory the answers are
\* drawn from WalkResponses, a part of Responses that still holds every case
\* the walk tells apart
Answers ==
    IF op.name = "upload_directory" THEN WalkResponses(Len(log) + 1)
    ELSE Responses(Len(log) + 1)

\* the method returns: its locals are gone, the caller has the value
Return(how, r) ==
    /\ result' = [k |-> "return", how |-> how, resp |-> r, err |-> NoError]
    /\ response' = NoResponse
    /\ pc' = "done"

\* the method raises: its locals are gone, the caller has the error
Raise(e) ==
    /\ result' = [k |-> "raise", how |-> "", resp |-> NoResponse, err |-> e]
    /\ response' = NoResponse
    /\ pc' = "done"

\* `.json()` on what the executor or the poller returned
ReturnJson(r) == IF JsonFails(r) THEN Raise(ValueError) ELSE Return("json", r)

\* what a facade method does with the response _waiting_for_finish returns
Finish(name, r) ==
    CASE name \in {"delete_resource", "empty_trash"} -> Return("true", NoResponse)
      [] name = "waiting_for_finish" -> Return("response", r)
      [] OTHER -> ReturnJson(r)

\* `sleep or self._SLEEP`
SleepOr(s) == IF Truthy(s) THEN s.n ELSE SLEEP

\* the test without the wait_for_finish flag
WaitEnters_any(r, wait) == r.status_code = STATUS_ACCEPTED

\* the test that sends _waiting_for_finish into its loop
WaitEnters(r, wait) == wait /\ r.status_code = STATUS_ACCEPTED

\* _waiting_for_finish up to its loop: r is the response it is given
waiting_for_finish_enter(r, wait, sleep) ==
    IF WaitEnters(r, wait)
    THEN IF GetError(r, "href") # NoError
         THEN /\ Raise(GetError(r, "href"))
              /\ UNCHANGED <<waited, href, sleepv>>
         ELSE /\ href' = r.body.href
              /\ sleepv' = SleepOr(sleep)
              /\ pc' = "sleep"
              /\ response' = r
              /\ UNCHANGED <<waited, result>>
    ELSE /\ waited' = r
         /\ Finish(op.name, r)
         /\ UNCHANGED <<href, sleepv>>

\* a test that takes any answer of status 200 for the end of the operation
PollSucceeded_any_status(r) == r.status_code = STATUS_OK

\* the loop's test of a poll's response
PollSucceeded(r) ==
    /\ r.status_code = STATUS_OK
    /\ GetError(r, "status") = NoError
    /\ r.body.status = "success"

\* a poll's answer that says the operation is over: status 200 and a body
\* whose status is "success"
Succeeded(r) ==
    /\ r.status_code = 200
    /\ r.body.json
    /\ "status" \in r.body.has
    /\ r.body.status = "success"

\* the url the loop polls
PollUrl == href

\* a loop that tries again when the service is unavailable
PollCatches_unavailable(e) == e.kind = "ServiceUnavailable"

\* the errors of a poll the loop handles itself: it has no try, so none
PollCatches(e) == FALSE

\* a facade method that makes one executor call and returns its `.json()`
JsonCall(name, d) ==
    /\ pc = name
    /\ \E r \in Answers :
        /\ Dispatch(d, r)
        /\ IF Classify(r).k = "raise" THEN Raise(Classify(r).err) ELSE ReturnJson(r)
    /\ UNCHANGED <<token, op, waited, href, sleepv, sleeps, polled, meta, fs, stack, visited>>

\* a facade method that makes one executor call and hands the response
\* to _waiting_for_finish
AsyncCall(name, d) ==
    /\ pc = name
    /\ \E r \in Answers :
        /\ Dispatch(d, r)
        /\ IF Classify(r).k = "raise"
           THEN Raise(Classify(r).err) /\ UNCHANGED <<waited, href, sleepv>>
           ELSE waiting_for_finish_enter(r, op.wait_for_finish, op.sleep)
    /\ UNCHANGED <<token, op, sleeps, polled, meta, fs, stack, visited>>

\* Requester.get / post / put / patch / delete called directly
request ==
    /\ pc = "request"
    /\ \E r \in Answers :
        /\ Dispatch(requester_request(op), r)
        /\ IF Classify(r).k = "raise" THEN Raise(Classify(r).err)
           ELSE Return("response", r)
    /\ UNCHANGED <<token, op, waited, href, sleepv, sleeps, polled, meta, fs, stack, visited>>

get_disk_info == JsonCall("get_disk_info", get_disk_info_request)
get_meta_info == JsonCall("get_meta_info", get_meta_info_request(op))
get_files_list == JsonCall("get_files_list", get_files_list_request(op))
get_last_uploaded == JsonCall("get_last_uploaded", get_last_uploaded_request(op))
set_meta_to_resource == JsonCall("set_meta_to_resource", set_meta_to_resource_request(op))
create_folder == JsonCall("create_folder", create_folder_request(op.path, op.fields))
publish_resource == JsonCall("publish_resource", publish_resource_request(op))
unpublish_resource == JsonCall("unpublish_resource", unpublish_resource_request(op))

upload_file_from_url == AsyncCall("upload_file_from_url", upload_file_from_url_request(op))
copy_resource == AsyncCall("copy_resource", copy_resource_request(op))
move_resource == AsyncCall("move_resource", move_resource_request(op))
delete_resource == AsyncCall("delete_resource", delete_resource_request(op))
empty_trash == AsyncCall("empty_trash", empty_trash_request(op))
restore_from_trash == AsyncCall("restore_from_trash", restore_from_trash_request(op))

\* _waiting_for_finish called with a response of any status
waiting_for_finish ==
    /\ pc = "waiting_for_finish"
    /\ waiting_for_finish_enter(op.given, op.wait_for_finish, op.sleep)
    /\ UNCHANGED <<token, op, log, ncalls, status, execRead, sleeps, polled,
                   file, meta, fs, stack, visited>>

\* the loop of _waiting_for_finish: time.sleep(sleep)
Sleep ==
    /\ pc = "sleep"
    /\ Len(sleeps) < MaxPolls
    /\ sleeps' = Append(sleeps, sleepv)
    /\ pc' = "poll"
    /\ UNCHANGED <<token, op, log, ncalls, response, status, execRead, result,
                   waited, href, sleepv, polled, file, meta, fs, stack, visited>>

\* the loop of _waiting_for_finish: the GET and the test of its response.
\* A response that fails the test is overwritten by the next poll before
\* anything reads it, so it is not kept.
Poll ==
    /\ pc = "poll"
    /\ \E r \in Answers :
        /\ Dispatch(poll_request(PollUrl), r)
        /\ polled' = Append(polled, Succeeded(r))
        /\ IF Classify(r).k = "raise"
           THEN IF PollCatches(Classify(r).err)
                THEN pc' = "sleep" /\ response' = NoResponse /\ UNCHANGED <<waited, result>>
                ELSE Raise(Classify(r).err) /\ UNCHANGED waited
           ELSE IF r.status_code = STATUS_OK /\ GetError(r, "status") # NoError
           THEN Raise(GetError(r, "status")) /\ UNCHANGED waited
           ELSE IF PollSucceeded(r)
           THEN waited' = r /\ Finish(op.name, r)
           ELSE pc' = "sleep" /\ response' = NoResponse /\ UNCHANGED <<waited, result>>
    /\ UNCHANGED <<token, op, href, sleepv, sleeps, meta, fs, stack, visited>>

\* download_file: the GET for the download url, and the href of its body
download_file ==
    /\ pc = "download_file"
    /\ \E r \in Answers :
        /\ Dispatch(download_url_request(op), r)
        /\ IF Classify(r).k = "raise" THEN Raise(Classify(r).err) /\ UNCHANGED href
           ELSE IF GetError(r, "href") # NoError
           THEN Raise(GetError(r, "href")) /\ UNCHANGED href
           ELSE /\ href' = r.body.href
                /\ pc' = "download_get"
                /\ response' = NoResponse
                /\ UNCHANGED result
    /\ UNCHANGED <<token, op, waited, sleepv, sleeps, polled, meta, fs, stack, visited>>

\* download_file: the GET of the content from the href returned
download_get ==
    /\ pc = "download_get"
    /\ \E r \in Answers :
        /\ Dispatch(download_get_request(href), r)
        /\ IF Classify(r).k = "raise" THEN Raise(Classify(r).err)
           ELSE Return("content", r)
    /\ UNCHANGED <<token, op, waited, href, sleepv, sleeps, polled, meta, fs, stack, visited>>

----------------------------------------------------------------------------
(* client.py: upload_file and _is_same_file *)

\* a test that looks at skip_exists alone
ChecksSame_skip_only(c) == c.skip_exists

\* the test that sends upload_file into _is_same_file
ChecksSame(c) == c.overwrite /\ c.skip_exists

\* errors.py: the error kinds are classes of their own, none a subclass of
\* another kind of the table, and an error carries its message
ErrorIsA(e, cls) == e.kind = cls

\* _is_same_file without its except clause
IsSameCatches_nothing(e) == FALSE

\* the except clause of _is_same_file
IsSameCatches(e) == ErrorIsA(e, "NotFoundError")

is_same_file_request(path) ==
    get_meta_info_request([Defaults("get_meta_info") EXCEPT !.path = path,
                                                            !.fields = md5_fields])

\* the file object after `hashlib.md5(fileobject.read())`
AfterHash(f) == AfterRead(f)

\* a comparison that never finds the file the same
SameMd5_never(r, f) == FALSE

\* `file_meta_info['md5'] == current_file_md5`
SameMd5(r, f) == r.body.md5 = md5_hexdigest(FileRead(f))

\* upload_file returned True: to its caller, or to the loop of upload_directory
UploadDone ==
    IF op.name = "upload_directory"
    THEN pc' = "upload_directory" /\ response' = NoResponse /\ UNCHANGED result
    ELSE Return("true", NoResponse)

\* upload_file goes on to the upload
ToUpload == pc' = "upload_url" /\ response' = NoResponse /\ UNCHANGED result

\* what is remembered of the metadata lookup: the status answered, the
\* error the lookup raised and the md5 it reported
MetaOf(r) ==
    [status_code |-> r.status_code,
     err |-> IF Classify(r).k = "raise" THEN Classify(r).err.kind
             ELSE IF JsonFails(r) THEN "ValueError" ELSE "",
     md5 |-> IF r.status_code \in OK_STATUSES /\ r.body.json /\ "md5" \in r.body.has
             THEN r.body.md5 ELSE ""]

\* upload_file up to the upload itself: the skip test
upload_file ==
    /\ pc = "upload_file"
    /\ IF ChecksSame(op)
       THEN \E r \in Answers :
            /\ Exchange(is_same_file_request(file.path), r)
            /\ meta' = MetaOf(r)
            /\ IF Classify(r).k = "raise"
               THEN IF IsSameCatches(Classify(r).err)
                    THEN ToUpload /\ UNCHANGED file
                    ELSE Raise(Classify(r).err) /\ UNCHANGED file
               ELSE IF JsonFails(r)
               THEN Raise(ValueError) /\ UNCHANGED file
               ELSE /\ file' = AfterHash(file)
                    /\ IF GetError(r, "md5") # NoError THEN Raise(GetError(r, "md5"))
                       ELSE IF SameMd5(r, file) THEN UploadDone
                       ELSE ToUpload
       ELSE /\ ToUpload
            /\ UNCHANGED <<log, ncalls, status, execRead, file, meta>>
    /\ UNCHANGED <<token, op, waited, href, sleepv, sleeps, polled, fs, stack, visited>>

\* upload_file: the GET for the upload url, and the href of its body
upload_url ==
    /\ pc = "upload_url"
    /\ \E r \in Answers :
        /\ Dispatch(upload_url_request([path |-> file.path, overwrite |-> op.overwrite]), r)
        /\ IF Classify(r).k = "raise" THEN Raise(Classify(r).err) /\ UNCHANGED href
           ELSE IF GetError(r, "href") # NoError
           THEN Raise(GetError(r, "href")) /\ UNCHANGED href
           ELSE /\ href' = r.body.href
                /\ pc' = "upload_put"
                /\ response' = NoResponse
                /\ UNCHANGED result
    /\ UNCHANGED <<token, op, waited, sleepv, sleeps, polled, meta, fs, stack, visited>>

\* upload_file: the PUT of the file object to the href returned
upload_put ==
    /\ pc = "upload_put"
    /\ \E r \in Answers :
        /\ Dispatch(upload_put_request(href), r)
        /\ IF Classify(r).k = "raise" THEN Raise(Classify(r).err)
           ELSE UploadDone
    /\ UNCHANGED <<token, op, waited, href, sleepv, sleeps, polled, meta, fs, stack, visited>>

----------------------------------------------------------------------------
(* client.py: upload_directory and _iter_directory_content *)

\* names of the nodes of a local tree; the root is named "r"
NodeNames == {<<"a">>, <<"b">>, <<"r">>}

LocalRoot == <<"r">>

\* what every file of the tree holds
TreeContent == <<1>>

RECURSIVE Trees(_)
Trees(n) ==
    IF n = 0 THEN {{[path |-> LocalRoot, dir |-> TRUE]}}
    ELSE LET smaller == Trees(n - 1)
         IN smaller \cup
            {t \cup {[path |-> par.path \o <<"/">> \o nm, dir |-> d]} :
                <<t, par, nm, d>> \in
                    {x \in smaller \X (UNION smaller) \X NodeNames \X BOOLEAN :
                        /\ x[2] \in x[1]
                        /\ x[2].dir
                        /\ \A m \in x[1] : m.path # x[2].path \o <<"/">> \o x[3]}}

\* os.path.join(a, b)
os_path_join(a, b) ==
    IF b # <<>> /\ b[1] = "/" THEN b
    ELSE IF a = <<>> \/ a[Len(a)] = "/" THEN a \o b
    ELSE a \o <<"/">> \o b

\* p names an entry of directory d that the pattern d/* matches
MatchesStar(d, p) ==
    /\ Len(p) > Len(d) + 1
    /\ SubSeq(p, 1, Len(d)) = d
    /\ p[Len(d) + 1] = "/"
    /\ p[Len(d) + 2] # "."
    /\ \A i \in (Len(d) + 2)..Len(p) : p[i] # "/"

\* glob.glob(pattern) on the tree: the paths matched, in no known order
glob(pattern) ==
    IF Len(pattern) >= 2 /\ SubSeq(pattern, Len(pattern) - 1, Len(pattern)) = <<"/", "*">>
    THEN {n.path : n \in {m \in fs : \E d \in fs :
                            /\ d.dir
                            /\ d.path = SubSeq(pattern, 1, Len(pattern) - 2)
                            /\ MatchesStar(d.path, m.path)}}
    ELSE {n.path : n \in {m \in fs : m.path = pattern}}

\* re.sub(r'{}\/?\*?'.format(start_path), '', path_item), for a start_path of
\* letters: every occurrence of start_path, with a "/" and a "*" after it
\* when they are there, is taken out, wherever in path_item it is
RECURSIVE re_sub(_, _)
re_sub(start, s) ==
    IF s = <<>> THEN <<>>
    ELSE IF Len(s) >= Len(start) /\ SubSeq(s, 1, Len(start)) = start
    THEN LET a == Len(start)
             b == IF Len(s) > a /\ s[a + 1] = "/" THEN a + 1 ELSE a
             c == IF Len(s) > b /\ s[b + 1] = "*" THEN b + 1 ELSE b
         IN re_sub(start, SubSeq(s, c + 1, Len(s)))
    ELSE <<Head(s)>> \o re_sub(start, Tail(s))

related_path(start, item) == re_sub(start, item)

\* os.path.isdir(path_item)
isdir(p) == \E n \in fs : n.path = p /\ n.dir

RECURSIVE DropEmpty(_)
DropEmpty(st) ==
    IF st = <<>> THEN <<>>
    ELSE IF Head(st) = {} THEN DropEmpty(Tail(st)) ELSE st

\* the generator after it yielded `item` of its innermost list: the glob of
\* the item's entries is the next list it draws from
Descend(st, item) ==
    <<glob(os_path_join(item, <<"*">>))>> \o <<Head(st) \ {item}>> \o Tail(st)

\* `'...' not in str(exc)`
FolderExists(e) == \E i \in 1..Len(e.message) : e.message[i] = FOLDER_EXISTS

\* a folder-create tolerated whatever the message of the conflict says
ToleratesFolder_any_conflict(e) == ErrorIsA(e, "DiskPathError")

\* the except clause around create_folder
ToleratesFolder(e) == ErrorIsA(e, "DiskPathError") /\ FolderExists(e)

\* a node the loop acts on: what it is, where it goes, how many requests
\* were made before it, and the error create_folder raised for it
Visit(isd, item, disk) ==
    [dir |-> isd, item |-> item, disk |-> disk, at |-> Len(log), err |-> NoError]

\* one turn of the loop of upload_directory, up to the end of create_folder
\* for a directory and up to the call of upload_file for a file
upload_directory ==
    /\ pc = "upload_directory"
    /\ LET st == DropEmpty(stack) IN
       IF st = <<>>
       THEN /\ Return("none", NoResponse)
            /\ stack' = <<>>
            /\ UNCHANGED <<log, ncalls, status, execRead, file, visited>>
       ELSE \E item \in Head(st) :
            LET rel == related_path(op.local_path, item)
                disk_path == os_path_join(op.path, rel)
            IN /\ stack' = Descend(st, item)
               /\ IF rel = <<>>
                  THEN UNCHANGED <<pc, log, ncalls, response, status, execRead,
                                   result, file, visited>>
                  ELSE IF isdir(item)
                  THEN /\ UNCHANGED file
                       /\ \E r \in Answers :
                           /\ Exchange(create_folder_request(disk_path, PyNone), r)
                           /\ visited' = Append(visited,
                                  [Visit(TRUE, item, disk_path) EXCEPT
                                      !.err = IF Classify(r).k = "raise"
                                              THEN Classify(r).err ELSE NoError])
                           /\ IF Classify(r).k = "raise"
                              THEN IF ToleratesFolder(Classify(r).err)
                                   THEN UNCHANGED <<pc, response, result>>
                                   ELSE Raise(Classify(r).err)
                              ELSE IF JsonFails(r) THEN Raise(ValueError)
                              ELSE UNCHANGED <<pc, response, result>>
                  ELSE /\ visited' = Append(visited, Visit(FALSE, item, disk_path))
                       /\ file' = [content |-> TreeContent, pos |-> 0, path |-> disk_path]
                       /\ pc' = "upload_file"
                       /\ UNCHANGED <<log, ncalls, response, status, execRead, result>>
    /\ UNCHANGED <<token, op, waited, href, sleepv, sleeps, polled, meta, fs>>

DirectoryCalls ==
    {[Defaults("upload_directory") EXCEPT !.local_path = LocalRoot,
          !.path = <<"/", "d">>, !.overwrite = ow, !.skip_exists = sk] :
        <<ow, sk>> \in {<<FALSE, TRUE>>, <<TRUE, TRUE>>}}

----------------------------------------------------------------------------
(* Calls and the next-state relation *)

Calls == RequesterCalls \cup ReadCalls \cup WriteCalls \cup AsyncCalls

Fresh ==
    /\ log' = <<>>
    /\ ncalls' = 0
    /\ response' = NoResponse
    /\ status' = 0
    /\ execRead' = FALSE
    /\ result' = NoResult
    /\ waited' = NoResponse
    /\ href' = ""
    /\ sleepv' = 0
    /\ sleeps' = <<>>
    /\ polled' = <<>>
    /\ meta' = NoMeta
    /\ visited' = <<>>

\* a user calls a method of the client
Call ==
    /\ pc = "idle"
    /\ \E c \in Calls :
        /\ op' = c
        /\ pc' = c.name
        /\ file' = [content |-> c.content, pos |-> 0, path |-> c.path]
    /\ Fresh
    /\ fs' = {}
    /\ stack' = <<>>
    /\ UNCHANGED token

\* a user calls upload_directory on some local tree
CallDirectory ==
    /\ pc = "idle"
    /\ \E c \in DirectoryCalls, t \in Trees(MaxNodes) :
        /\ op' = c
        /\ fs' = t
        /\ stack' = <<{n.path : n \in {m \in t : m.path = c.local_path}}>>
    /\ pc' = "upload_directory"
    /\ file' = NoFile
    /\ Fresh
    /\ UNCHANGED token

\* the call is over and the client is used again
Again ==
    /\ pc = "done"
    /\ pc' = "idle"
    /\ op' = Defaults("")
    /\ file' = NoFile
    /\ fs' = {}
    /\ stack' = <<>>
    /\ Fresh
    /\ UNCHANGED token

Next ==
    \/ Call
    \/ CallDirectory
    \/ Again
    \/ request
    \/ get_disk_info
    \/ get_meta_info
    \/ get_files_list
    \/ get_last_uploaded
    \/ set_meta_to_resource
    \/ create_folder
    \/ publish_resource
    \/ unpublish_resource
    \/ upload_file
    \/ upload_url
    \/ upload_put
    \/ upload_directory
    \/ upload_file_from_url
    \/ download_file
    \/ download_get
    \/ copy_resource
    \/ move_resource
    \/ delete_resource
    \/ empty_trash
    \/ restore_from_trash
    \/ waiting_for_finish
    \/ Sleep
    \/ Poll

Spec == Init /\ [][Next]_vars

----------------------------------------------------------------------------
(* Requester.wrap alone: one executor call, the answer kept beside what    *)
(* wrapped() makes of it                                                   *)

ExecInit ==
    /\ token \in Tokens
    /\ pc = "request"
    /\ op \in RequesterCalls
    /\ log = <<>>
    /\ ncalls = 1
    /\ response = NoResponse
    /\ status = 0
    /\ execRead = FALSE
    /\ result = NoResult
    /\ waited = NoResponse
    /\ href = ""
    /\ sleepv = 0
    /\ sleeps = <<>>
    /\ polled = <<>>
    /\ file = NoFile
    /\ meta = NoMeta
    /\ fs = {}
    /\ stack = <<>>
    /\ visited = <<>>

\* wrapped() up to `response = method(url, *args, **kwargs)`
wrapped_call ==
    /\ pc = "request"
    /\ \E r \in Answers :
        /\ log' = log \o Dispatched(requester_request(op), r)
        /\ response' = r
        /\ status' = r.status_code
    /\ pc' = "wrapped"
    /\ UNCHANGED <<token, op, ncalls, execRead, result, waited, href, sleepv,
                   sleeps, polled, file, meta, fs, stack, visited>>

\* wrapped() from the test of the status code on
wrapped_classify ==
    /\ pc = "wrapped"
    /\ execRead' = Classify(response).read
    /\ result' = IF Classify(response).k = "raise"
                 THEN [k |-> "raise", how |-> "", resp |-> NoResponse,
                       err |-> Classify(response).err]
                 ELSE [k |-> "return", how |-> "response", resp |-> response,
                       err |-> NoError]
    /\ pc' = "done"
    /\ UNCHANGED <<token, op, log, ncalls, response, status, waited, href, sleepv,
                   sleeps, polled, file, meta, fs, stack, visited>>

ExecNext == wrapped_call \/ wrapped_classify

ExecSpec == ExecInit /\ [][ExecNext]_vars

----------------------------------------------------------------------------
(* The claims *)

SuccessCodes == {200, 201, 202, 204}

\* the error kind the table of the specification gives a status code
KindOf(code) ==
    CASE code = 401 -> "UnauthorizedError"
      [] code = 403 -> "ForbiddenError"
      [] code = 404 -> "NotFoundError"
      [] code = 409 -> "DiskPathError"
      [] code = 412 -> "PreconditionFailed"
      [] code = 413 -> "PayloadTooLarge"
      [] code = 500 -> "InternalServerError"
      [] code = 503 -> "ServiceUnavailable"
      [] code = 507 -> "InsufficientStorageError"
      [] OTHER -> "RequestError"

\* C1: an executor call whose answer has a status code in {200, 201, 202, 204}
\* returns that very answer, whatever its body, without raising and without
\* parsing the body; a call whose answer has any other status code returns no
\* response: it raises.
C1_SuccessReturnsTheResponse ==
    pc = "done" =>
        IF response.status_code \in SuccessCodes
        THEN /\ result.k = "return"
             /\ result.resp = response
             /\ result.err = NoError
             /\ ~execRead
        ELSE /\ result.k = "raise"
             /\ result.resp = NoResponse
             /\ result.err # NoError

C1_Witness ==
    /\ pc = "done"
    /\ response.status_code = 204
    /\ ~response.body.json
    /\ result.k = "return"
    /\ result.resp = response

\* C2: an executor call whose answer has a status code outside the success
\* set and a body with a message raises the one error kind the table gives
\* that code, RequestError for a code outside the table, and the error
\* carries the message of the body.
C2_ErrorKindByStatus ==
    (/\ pc = "done"
     /\ response.status_code \notin SuccessCodes
     /\ response.body.json
     /\ "message" \in response.body.has)
    => /\ result.k = "raise"
       /\ result.err = [kind |-> KindOf(response.status_code),
                        message |-> response.body.message]

C2_Witness ==
    /\ pc = "done"
    /\ response.status_code = 409
    /\ response.body.message = <<"path", FOLDER_EXISTS>>
    /\ result.err = [kind |-> "DiskPathError", message |-> <<"path", FOLDER_EXISTS>>]

\* _waiting_for_finish was called with a 202 response that has an href,
\* and with wait_for_finish true
Waits ==
    /\ op.name = "waiting_for_finish"
    /\ op.wait_for_finish
    /\ op.given.status_code = 202
    /\ op.given.body.json
    /\ "href" \in op.given.body.has

\* C3: _waiting_for_finish, given a 202 response with href X and
\* wait_for_finish true, polls with a GET of exactly X and of nothing else;
\* it does not return before a poll is answered 200 with status "success";
\* no poll follows such an answer, and the call then returns that answer:
\* not the response it was given, not a later one.
C3_PollsUntilSuccess ==
    Waits =>
        /\ \A i \in 1..Len(log) : log[i].verb = "GET" /\ log[i].url = op.given.body.href
        /\ Len(polled) = Len(log)
        /\ \A i \in 1..(Len(polled) - 1) : ~polled[i]
        /\ (result.k = "return")
            <=> (Len(polled) > 0 /\ polled[Len(polled)])
        /\ result.k = "return" =>
            /\ pc = "done"
            /\ result.how = "response"
            /\ result.resp = waited
            /\ result.resp.id = Len(log)
            /\ result.resp.status_code = 200
            /\ result.resp.body.status = "success"
            /\ result.resp # op.given

C3_Witness ==
    /\ Waits
    /\ pc = "done"
    /\ result.k = "return"
    /\ polled = <<FALSE, TRUE>>
    /\ result.resp.id = 2

\* C4: _waiting_for_finish called with wait_for_finish false, or with a
\* response whose status is not 202, makes no request and no sleep and
\* returns the response it was given, unchanged.
C4_NoWaitReturnsGiven ==
    (/\ op.name = "waiting_for_finish"
     /\ pc # "waiting_for_finish"
     /\ (~op.wait_for_finish \/ op.given.status_code # 202))
    => /\ pc = "done"
       /\ result.k = "return"
       /\ result.resp = op.given
       /\ waited = op.given
       /\ log = <<>>
       /\ sleeps = <<>>
       /\ polled = <<>>
       /\ ncalls = 0

C4_Witness ==
    /\ op.name = "waiting_for_finish"
    /\ pc = "done"
    /\ ~op.wait_for_finish
    /\ op.given.status_code = 202
    /\ result.resp = op.given
    /\ log = <<>>

\* the keys of the optional parameters the caller left at None
OmittedKeys(c) ==
    {k \in {"sort", "limit", "offset", "fields", "preview_size", "preview_crop",
            "media_type", "name"} :
        (CASE k = "sort" -> c.sort
           [] k = "limit" -> c.limit
           [] k = "offset" -> c.offset
           [] k = "fields" -> c.fields
           [] k = "preview_size" -> c.preview_size
           [] k = "preview_crop" -> c.preview_crop
           [] k = "media_type" -> c.media_type
           [] k = "name" -> c.rename) = PyNone}

\* the facade methods that pass their own optional parameters on
PassesOptionals ==
    {"get_meta_info", "get_files_list", "get_last_uploaded", "set_meta_to_resource",
     "create_folder", "upload_file_from_url", "copy_resource", "restore_from_trash"}

\* C5: the key of an optional parameter the caller left at None is in the
\* query string of no request the facade method issues.
C5_OmittedNeverSent ==
    op.name \in PassesOptionals =>
        \A i \in 1..Len(log) : \A j \in 1..Len(log[i].query) :
            log[i].query[j][1] \notin OmittedKeys(op)

IsMetaGet(q) == q.verb = "GET" /\ q.url = DiskUrl \o "disk/resources" /\ ~q.files

IsUploadUrlGet(q) ==
    q.verb = "GET" /\ q.url = DiskUrl \o "disk/resources/upload" /\ ~q.files

IsContentPut(q) == q.verb = "PUT" /\ q.url \in Hrefs /\ q.files

\* upload_file was called with overwrite and skip_exists and is past its
\* skip test
SkipTested ==
    /\ op.name = "upload_file"
    /\ op.overwrite
    /\ op.skip_exists
    /\ pc # "upload_file"

\* C6: upload_file with overwrite and skip_exists, when the metadata of the
\* destination reports the md5 of the local file's content, issues the
\* metadata GET and nothing else, and returns True.
C6_SameFileIsSkipped ==
    (SkipTested /\ meta.md5 # "" /\ meta.md5 = md5_hexdigest(op.content))
    => /\ pc = "done"
       /\ result.k = "return"
       /\ result.how = "true"
       /\ Len(log) = 1
       /\ IsMetaGet(log[1])
       /\ ncalls = 1

C6_Witness ==
    /\ SkipTested
    /\ op.content = <<1>>
    /\ meta.md5 = md5_hexdigest(<<1>>)
    /\ result.how = "true"
    /\ Len(log) = 1

\* C7: upload_file with overwrite and skip_exists, when the metadata lookup
\* raises NotFoundError: the error does not reach the caller, the next
\* request is the GET for an upload url and the one after it the PUT of the
\* content, and the call returns True once the PUT is answered with
\* success. When the lookup raises any other error, that error reaches the
\* caller and the metadata GET stays the only request.
C7_NotFoundGoesOnToUpload ==
    SkipTested =>
        /\ meta.err = "NotFoundError" =>
            /\ pc \in {"upload_url", "upload_put", "done"}
            /\ pc = "done" => Len(log) >= 2
            /\ pc = "upload_url" => Len(log) = 1
            /\ pc = "upload_put" => Len(log) = 2
            /\ Len(log) <= 3
            /\ IsMetaGet(log[1])
            /\ Len(log) >= 2 => IsUploadUrlGet(log[2])
            /\ Len(log) >= 3 => IsContentPut(log[3]) /\ log[3].url = href
            /\ result.k = "return" => Len(log) = 3 /\ result.how = "true"
            /\ (pc = "done" /\ Len(log) = 3 /\ status \in SuccessCodes)
                => result.k = "return"
        /\ meta.err \notin {"", "NotFoundError"} =>
            /\ pc = "done"
            /\ result.k = "raise"
            /\ result.err.kind = meta.err
            /\ Len(log) = 1

C7_Witness ==
    /\ SkipTested
    /\ meta.status_code = 404
    /\ meta.err = "NotFoundError"
    /\ pc = "done"
    /\ result.k = "return"
    /\ Len(log) = 3

\* C8: whenever upload_file does not skip, the request after the GET for an
\* upload url is the PUT to the href returned, and the PUT carries the whole
\* content of the local file, whatever the flags were.
C8_PutCarriesWholeFile ==
    op.name = "upload_file" =>
        \A i \in 1..Len(log) :
            log[i].files =>
                /\ IsContentPut(log[i])
                /\ i > 1
                /\ IsUploadUrlGet(log[i - 1])
                /\ log[i].sent = op.content

\* the path of a node relative to the local root
Relative(p) == SubSeq(p, Len(op.local_path) + 2, Len(p))

\* q is a node beneath the directory p
Beneath(p, q) ==
    /\ Len(q) > Len(p) + 1
    /\ SubSeq(q, 1, Len(p)) = p
    /\ q[Len(p) + 1] = "/"

\* C9: upload_directory, over any local tree, creates one folder for every
\* sub-directory and calls upload_file once for every file, none for the
\* root, each at the remote path joined with the node's path relative to
\* the local root, and a folder before anything beneath it.
C9_OneActionPerNode ==
    (op.name = "upload_directory" /\ pc = "done" /\ result.k = "return") =>
        /\ \A n \in fs : n.path # op.local_path =>
            Cardinality({i \in 1..Len(visited) :
                            /\ visited[i].item = n.path
                            /\ visited[i].dir = n.dir
                            /\ visited[i].disk = op.path \o <<"/">> \o Relative(n.path)})
                = 1
        /\ Len(visited) = Cardinality(fs) - 1
        /\ \A i, j \in 1..Len(visited) :
            (visited[i].dir /\ Beneath(visited[i].item, visited[j].item)) => i < j

\* every request of the running call carries the header of the token
AuthorizationOnAll ==
    \A i \in 1..Len(log) :
        \/ op.name = "request" /\ op.without_auth
        \/ log[i].headers = {<<"Authorization", "OAuth " \o token>>}

\* C10: every request handed to the transport carries
\* Authorization = "OAuth <token>", unless the call was made with
\* without_auth = True, on the base url and on absolute urls alike, and no
\* step of the client changes the token.
C10_AuthorizationOnEveryRequest ==
    []AuthorizationOnAll /\ [][token' = token]_vars

C10_Witness ==
    /\ Len(log) = 3
    /\ IsContentPut(log[3])
    /\ log[3].url = href
    /\ log[3].headers = {<<"Authorization", "OAuth " \o token>>}

\* the errors an executor call can raise on an answer with status `code`:
\* the kind of the code with the message of the body, or the error of
\* reading a body that is no JSON or has no message
ErrorsOf(code) ==
    {[kind |-> KindOf(code), message |-> m] : m \in Messages}
    \cup {[kind |-> "ValueError", message |-> <<>>],
          [kind |-> "KeyError", message |-> <<"message">>]}

\* C11: when a poll of the loop of _waiting_for_finish is answered with a
\* status code outside {200, 201, 202, 204}, the error the executor raised
\* for that answer is what the caller of the facade method gets; the call is
\* over with that poll, so no sleep and no poll follows it, and no response
\* is returned.
C11_PollErrorPropagates ==
    (Len(polled) > 0 /\ status \notin SuccessCodes) =>
        /\ pc = "done"
        /\ result.k = "raise"
        /\ result.err \in ErrorsOf(status)
        /\ result.resp = NoResponse
        /\ waited = NoResponse
        /\ ~polled[Len(polled)]
        /\ Len(sleeps) = Len(polled)
        /\ log[Len(log)].url = href

C11_Witness ==
    /\ op.name = "copy_resource"
    /\ polled = <<FALSE, FALSE>>
    /\ status = 503
    /\ pc = "done"
    /\ result.err = [kind |-> "ServiceUnavailable", message |-> <<"error">>]
    /\ sleeps = <<SLEEP, SLEEP>>

\* C12: in the loop of _waiting_for_finish one sleep comes before every
\* poll, the first included, and every sleep lasts what the caller gave as
\* `sleep` whenever the caller gave it, 0 included, and 3 only when the
\* caller gave none: the same at every turn.
C12_SleepIsTheOverride ==
    /\ Len(sleeps) = Len(polled) + (IF pc = "poll" THEN 1 ELSE 0)
    /\ \A i \in 1..Len(sleeps) :
        sleeps[i] = IF op.sleep = PyNone THEN 3 ELSE op.sleep.n

\* C13: the loop of _waiting_for_finish is left in two ways only: by a poll
\* answered 200 with status "success", which is returned, or by a poll that
\* raises. After a poll answered 201, 202 or 204, or 200 with another
\* status such as "failed", the loop is set to sleep and poll again, however
\* many polls were made: it counts nothing and has no other way out.
C13_TwoExitsOnly ==
    Len(polled) > 0 =>
        /\ pc \in {"sleep", "poll", "done"}
        /\ pc = "done" =>
            \/ /\ result.k = "return"
               /\ polled[Len(polled)]
               /\ status = 200
            \/ /\ result.k = "raise"
               /\ ~polled[Len(polled)]
               /\ \/ status \notin SuccessCodes
                  \/ status = 200 /\ result.err.kind \in {"ValueError", "KeyError"}
        /\ (\/ status \in {201, 202, 204}
            \/ status = 200 /\ ~polled[Len(polled)] /\ result.k # "raise")
            => /\ pc \in {"sleep", "poll"}
               /\ result = NoResult
               /\ waited = NoResponse

C13_Witness ==
    /\ op.name = "delete_resource"
    /\ pc = "sleep"
    /\ Len(polled) = 2
    /\ ~polled[1] /\ ~polled[2]
    /\ status = 200
    /\ result = NoResult

\* the facade methods that make one executor call
OneCallMethods ==
    {"request", "get_disk_info", "get_meta_info", "get_files_list", "get_last_uploaded",
     "set_meta_to_resource", "create_folder", "publish_resource", "unpublish_resource"}

\* the facade methods that make one executor call and then may poll
PollingMethods ==
    {"upload_file_from_url", "copy_resource", "move_resource", "delete_resource",
     "empty_trash", "restore_from_trash"}

\* C14: every executor call hands one request to the transport, also when
\* the answer is a non-success status, so the requests of a facade method
\* are as many as its executor calls: one for every step of its protocol
\* and one for every poll.
C14_OneRequestPerCall ==
    /\ Len(log) = ncalls
    /\ (Len(log) > 0 /\ status \notin SuccessCodes /\ pc = "done"
            /\ op.name # "upload_directory")
        => result.k = "raise"
    /\ pc = "done" =>
        /\ op.name \in OneCallMethods => Len(log) = 1
        /\ op.name \in PollingMethods => Len(log) = 1 + Len(polled)
        /\ op.name = "waiting_for_finish" => Len(log) = Len(polled)
        /\ op.name = "download_file" =>
            Len(log) = (IF result.k = "return" THEN 2 ELSE IF href = "" THEN 1 ELSE 2)
        /\ (op.name = "upload_file" /\ result.k = "return") =>
            Len(log) = (IF ~(op.overwrite /\ op.skip_exists) THEN 2
                        ELSE IF meta.md5 = md5_hexdigest(op.content) THEN 1 ELSE 3)

C14_Witness ==
    /\ op.name = "move_resource"
    /\ pc = "done"
    /\ Len(polled) = 1
    /\ status = 500
    /\ result.k = "raise"
    /\ Len(log) = 2
    /\ ncalls = 2

\* the error is the conflict that says the folder is already there
SaysFolderExists(e) ==
    /\ e.kind = "DiskPathError"
    /\ \E j \in 1..Len(e.message) : e.message[j] = "a folder with this name already exists"

\* the last request made is the metadata lookup of the file being uploaded
\* and _is_same_file caught its NotFoundError
LookupNotFound(v) ==
    /\ op.overwrite /\ op.skip_exists
    /\ Len(log) = v.at + 1
    /\ status = 404
    /\ meta.err = "NotFoundError"

\* C15: in upload_directory a folder-create that fails with the 409 conflict
\* whose message holds the folder-already-exists text is ignored and the
\* walk goes on, to the nodes beneath that folder too; a folder-create that
\* fails with any other error, or with a 409 without that text, and any
\* error of a file upload, reaches the caller at once, and no request is
\* made for a later node.
C15_OnlyFolderExistsIsTolerated ==
    op.name = "upload_directory" =>
        /\ \A i \in 1..Len(visited) :
            LET v == visited[i] IN
            /\ v.err # NoError => v.dir
            /\ (i = Len(visited) /\ v.dir /\ status \notin SuccessCodes)
                => v.err \in ErrorsOf(status)
            /\ v.err # NoError =>
                IF SaysFolderExists(v.err)
                THEN /\ i = Len(visited) => result.k # "raise"
                     /\ (pc = "done" /\ result.k = "return") =>
                         \A n \in fs : Beneath(v.item, n.path) =>
                             \E j \in (i + 1)..Len(visited) : visited[j].item = n.path
                ELSE /\ i = Len(visited)
                     /\ pc = "done"
                     /\ result.k = "raise"
                     /\ result.err = v.err
                     /\ Len(log) = v.at + 1
        /\ Len(visited) > 0 =>
            LET v == visited[Len(visited)] IN
            (~v.dir /\ Len(log) > v.at /\ status \notin SuccessCodes /\ ~LookupNotFound(v))
                => /\ pc = "done"
                   /\ result.k = "raise"
                   /\ result.err \in ErrorsOf(status)
        /\ result.k = "raise" =>
            /\ pc = "done"
            /\ Len(visited) > 0
            /\ Len(log) > visited[Len(visited)].at

C15_Witness ==
    /\ op.name = "upload_directory"
    /\ pc = "done"
    /\ result.k = "return"
    /\ Len(visited) = 2
    /\ SaysFolderExists(visited[1].err)
    /\ Beneath(visited[1].item, visited[2].item)
    /\ ~visited[2].dir

\* upload_file was called on a file that is not empty and is past its skip
\* test
PastSkipTest ==
    /\ op.name = "upload_file"
    /\ op.content # <<>>
    /\ pc # "upload_file"

BothFlags == op.overwrite /\ op.skip_exists

\* the metadata lookup was issued
LookedUp == Len(log) >= 1 /\ IsMetaGet(log[1])

\* the local file was read before the PUT: the PUT, once made, did not get
\* the content from its start; until then the file object has moved
HashedBeforePut ==
    IF \E i \in 1..Len(log) : log[i].files
    THEN \E i \in 1..Len(log) : log[i].files /\ log[i].sent # op.content
    ELSE file.pos > 0

\* without both flags upload_file starts with the GET for an upload url,
\* goes on to the PUT whenever that GET gave an href, returns True only
\* after the PUT, and the PUT gets the file from its start
NoSkipWithoutBothFlags ==
    ~BothFlags =>
        /\ pc \in {"upload_url", "upload_put", "done"}
        /\ Len(log) >= 1 => IsUploadUrlGet(log[1])
        /\ (Len(log) = 1 /\ status \in SuccessCodes /\ result.k # "raise")
            => pc = "upload_put"
        /\ pc \in {"upload_url", "upload_put"} => file.pos = 0
        /\ Len(log) >= 2 => IsContentPut(log[2]) /\ log[2].sent = op.content
        /\ (pc = "done" /\ result.k = "return") => Len(log) = 2
        /\ (pc = "done" /\ Len(log) = 2 /\ status \in SuccessCodes)
            => result.k = "return" /\ result.how = "true"
        /\ Len(log) <= 2

\* C16 as stated: upload_file issues the metadata lookup and reads the
\* local file for hashing if and only if overwrite and skip_exists are both
\* true; with any other flags the first request is the GET for an upload
\* url, the upload goes on to the PUT, and the file is not read before the
\* PUT. Lookups answered with a body that is no JSON or lacks its field
\* are left aside.
C16_LookupAndHashIffBothFlags ==
    (PastSkipTest /\ meta.err \notin {"ValueError", "KeyError"}) =>
        /\ (LookedUp /\ HashedBeforePut) <=> BothFlags
        /\ NoSkipWithoutBothFlags

\* C16 as amended: upload_file issues the metadata lookup if and only if
\* overwrite and skip_exists are both true, and reads the local file for
\* hashing if and only if both are true and the lookup returned the
\* metadata: the file is not read when the lookup raises, NotFoundError
\* included. With any other flags the first request is the GET for an
\* upload url, the upload goes on to the PUT, and the file is not read
\* before the PUT.
C16_LookupIffBothFlags ==
    PastSkipTest =>
        /\ LookedUp <=> BothFlags
        /\ HashedBeforePut <=>
            (BothFlags /\ meta.status_code \in SuccessCodes /\ meta.err = "")
        /\ NoSkipWithoutBothFlags

C16_Witness ==
    /\ PastSkipTest
    /\ ~op.overwrite /\ op.skip_exists
    /\ pc = "done"
    /\ result.how = "true"
    /\ Len(log) = 2
    /\ IsUploadUrlGet(log[1])
    /\ log[2].sent = <<1>>
    /\ meta = NoMeta

====
